---- MODULE Spec2Model ----
(***************************************************************************)
(* Model of the metafeature extraction engine of pymfe: the selection      *)
(* processing of _internal.py (process_groups, process_features,           *)
(* process_summary, check_data) and the MFE class of mfe.py (__init__,     *)
(* fit, extract and their helpers).                                        *)
(*                                                                         *)
(* Python values are records tagged by their type in field t.  Strings are *)
(* TLA+ strings, tuples and lists are sequences, a dict is a sequence of   *)
(* <<key, value>> pairs with distinct keys, in insertion order.            *)
(***************************************************************************)
EXTENDS Integers, Sequences, FiniteSets, TLC

VARIABLES
    self_groups,           \* MFE.groups
    self_features,         \* MFE.features
    self_ft_mtd_metadata,  \* MFE._ft_mtd_metadata
    self_summary,          \* MFE.summary
    self_X,                \* MFE.X
    self_y,                \* MFE.y
    self_splits,           \* MFE.splits
    self_custom_args_ft,   \* MFE._custom_args_ft
    behav,            \* what the body of each selected feature routine does
    fit_called,       \* fit has been called on the engine
    last_fit,         \* what the most recent successful fit was given, and whether
                      \* it replaced the context of an earlier one
    ret,              \* the last call on the engine and its outcome
    fit_in,           \* arguments of MFE.fit under examination
    ctor_in,          \* arguments of MFE.__init__ under examination
    ctor_out,         \* outcome of MFE.__init__ on ctor_in, or Pending
    pre_in,           \* arguments of the precompute routine under examination
    pre_out,          \* outcome of the precompute routine on pre_in, or Pending
    cx_in,            \* dataset given to ft_F3 and ft_F4
    cx_out            \* progress of ft_F3 and ft_F4 on cx_in

-----------------------------------------------------------------------------
(* Bounds of the model *)

\* longest collection passed as groups, features or summary
MaxSel == 2

\* largest extent of a dimension of the arrays passed to fit
MaxDim == 2

\* most parameters overridden for one routine in a call of extract
MaxKeys == 1

-----------------------------------------------------------------------------
(* Python values *)

PyNone == [t |-> "None"]
PyStr(s) == [t |-> "str", v |-> s]
PyList(q) == [t |-> "list", v |-> q]
PyInt(n) == [t |-> "int", v |-> n]
PyTuple(q) == [t |-> "tuple", v |-> q]
PyFunc(f) == [t |-> "function", v |-> f]
PyDict(q) == [t |-> "dict", v |-> q]

\* truth value of a Python object, as tested by "if not x"
Truthy(x) ==
    CASE x.t = "None" -> FALSE
      [] x.t = "str" -> x.v # ""
      [] x.t = "list" -> x.v # <<>>
      [] x.t = "int" -> x.v # 0
      [] OTHER -> TRUE

\* isinstance(x, collections.Iterable)
IsIterable(x) == x.t \in {"str", "list"}

Range(q) == {q[i] : i \in 1..Len(q)}

Map(F(_), q) == [i \in 1..Len(q) |-> F(q[i])]

\* every order in which the elements of a set can be iterated: the order of
\* a Python set of strings is fixed by the string hashes of the process
RECURSIVE TupleOfSet(_)
TupleOfSet(S) ==
    IF S = {} THEN {<<>>}
    ELSE UNION {{<<x>> \o q : q \in TupleOfSet(S \ {x})} : x \in S}

\* list.remove(x): delete the first occurrence of x
RECURSIVE ListRemove(_, _)
ListRemove(q, x) ==
    IF q = <<>> THEN <<>>
    ELSE IF Head(q) = x THEN Tail(q)
    ELSE <<Head(q)>> \o ListRemove(Tail(q), x)

\* concatenation of a sequence of sequences
RECURSIVE Flatten(_)
Flatten(qq) == IF qq = <<>> THEN <<>> ELSE Head(qq) \o Flatten(Tail(qq))

LowerChar(c) ==
    CASE c = "A" -> "a" [] c = "B" -> "b" [] c = "C" -> "c" [] c = "D" -> "d"
      [] c = "E" -> "e" [] c = "F" -> "f" [] c = "G" -> "g" [] c = "H" -> "h"
      [] c = "I" -> "i" [] c = "J" -> "j" [] c = "K" -> "k" [] c = "L" -> "l"
      [] c = "M" -> "m" [] c = "N" -> "n" [] c = "O" -> "o" [] c = "P" -> "p"
      [] c = "Q" -> "q" [] c = "R" -> "r" [] c = "S" -> "s" [] c = "T" -> "t"
      [] c = "U" -> "u" [] c = "V" -> "v" [] c = "W" -> "w" [] c = "X" -> "x"
      [] c = "Y" -> "y" [] c = "Z" -> "z" [] OTHER -> c

\* str.lower
RECURSIVE Lower(_)
Lower(s) ==
    IF Len(s) = 0 THEN ""
    ELSE LowerChar(SubSeq(s, 1, 1)) \o Lower(SubSeq(s, 2, Len(s)))

\* "k in s" for two strings: k occurs in s as a substring
StrContains(s, k) ==
    \/ Len(k) = 0
    \/ \E i \in 1..Len(s) : \E j \in i..Len(s) : SubSeq(s, i, j) = k

-----------------------------------------------------------------------------
(* _internal.py: registry constants *)

VALID_GROUPS == <<"landmarking", "general", "statistical", "model-based", "info-theory">>

MTF_PREFIX == "ft_"

\* _summary.SUMMARY_METHODS: the summary functions by name, each with the
\* parameter names of its callable
SUMMARY_METHODS ==
    << [name |-> "mean", args |-> <<"a">>],
       [name |-> "sd", args |-> <<"a", "ddof">>],
       [name |-> "histogram", args |-> <<"a", "bins">>] >>

VALID_SUMMARY == Map(LAMBDA m : m.name, SUMMARY_METHODS)

\* the ft_-prefixed methods of a metafeature class, sorted by name as
\* inspect.getmembers returns them; req are the parameters without default
MFE_CLASS_METHODS(group) ==
    CASE group = "general" ->
            << [name |-> "ft_nr_inst", args |-> <<"X">>, req |-> {"X"}] >>
      [] group = "statistical" ->
            << [name |-> "ft_sd", args |-> <<"X", "ddof">>, req |-> {"X"}] >>
      [] OTHER -> <<>>

\* remove_mtd_prefix
remove_mtd_prefix(mtd_name) ==
    IF Len(mtd_name) >= Len(MTF_PREFIX) /\ SubSeq(mtd_name, 1, Len(MTF_PREFIX)) = MTF_PREFIX
    THEN SubSeq(mtd_name, Len(MTF_PREFIX) + 1, Len(mtd_name))
    ELSE mtd_name

-----------------------------------------------------------------------------
(* _internal.py: selection processing.  An operator whose Python function  *)
(* iterates over a set yields the set of its possible results.             *)

\* _check_value_in_group: the possible pairs (in_group, not_in_group), or a
\* TypeError
check_value_in_group(value, group, wildcard) ==
    IF ~IsIterable(value) THEN {[exc |-> "TypeError"]}
    ELSE IF value.t = "str" THEN
        LET v == Lower(value.v) IN
        IF v = Lower(wildcard) THEN {[exc |-> "", in_group |-> group, not_in_group |-> <<>>]}
        ELSE IF v \in Range(group) THEN {[exc |-> "", in_group |-> <<v>>, not_in_group |-> <<>>]}
        ELSE {[exc |-> "", in_group |-> <<>>, not_in_group |-> <<v>>]}
    ELSE
        LET value_set == {Lower(s) : s \in Range(value.v)} IN
        IF Lower(wildcard) \in value_set
        THEN {[exc |-> "", in_group |-> group, not_in_group |-> <<>>]}
        ELSE {[exc |-> "", in_group |-> i, not_in_group |-> n] :
                 i \in TupleOfSet(value_set \cap Range(group)),
                 n \in TupleOfSet(value_set \ Range(group))}

\* process_groups: the possible outcomes, a tuple of group names or an error
process_groups(groups) ==
    IF ~Truthy(groups) THEN {[exc |-> "ValueError", names |-> <<>>, msg |-> "empty"]}
    ELSE {IF r.exc # "" THEN [exc |-> r.exc, names |-> <<>>, msg |-> "type"]
          ELSE IF r.not_in_group # <<>>
               THEN [exc |-> "ValueError", names |-> r.not_in_group, msg |-> "unknown"]
               ELSE [exc |-> "", ret |-> r.in_group] :
          r \in check_value_in_group(groups, VALID_GROUPS, "all")}

\* position of a summary function in SUMMARY_METHODS
SummaryMethod(name) == CHOOSE m \in Range(SUMMARY_METHODS) : m.name = name

\* process_summary: the possible outcomes, the pair (names, records) or an
\* error
process_summary(summary) ==
    IF ~Truthy(summary) THEN {[exc |-> "ValueError", names |-> <<>>, msg |-> "empty"]}
    ELSE {IF r.exc # "" THEN [exc |-> r.exc, names |-> <<>>, msg |-> "type"]
          ELSE IF r.not_in_group # <<>>
               THEN [exc |-> "ValueError", names |-> r.not_in_group, msg |-> "unknown"]
               ELSE [exc |-> "",
                     ret |-> << PyTuple(Map(PyStr, r.in_group)),
                                PyTuple(Map(LAMBDA f : PyTuple(<< PyStr(f), PyFunc(f),
                                                                  PyList(SummaryMethod(f).args) >>),
                                            r.in_group)) >>] :
          r \in check_value_in_group(summary, VALID_SUMMARY, "all")}

\* _filter_mtd_dict taking its branch for no filter whatever the groups
filter_mtd_dict_m(groups) == {Flatten(Map(MFE_CLASS_METHODS, VALID_GROUPS))}

\* _filter_mtd_dict applied to _get_all_ft_mtds(): the possible method lists
filter_mtd_dict(groups) ==
    IF groups # <<>>
    THEN {Flatten(Map(MFE_CLASS_METHODS, g)) :
             g \in TupleOfSet(Range(groups) \cap Range(VALID_GROUPS))}
    ELSE {Flatten(Map(MFE_CLASS_METHODS, VALID_GROUPS))}

\* _preprocess_ft_arg: the possible canonical forms
preprocess_ft_arg(features) ==
    IF features.t # "str"
    THEN {PyList(Map(Lower, q)) : q \in TupleOfSet(Range(features.v))}
    ELSE {PyStr(Lower(features.v))}

\* the TypeExtMtdTuple of a method: name, callable, parameter names
ExtendedItem(m) == [name |-> m.name, callable |-> m.name, args |-> m.args]

\* _check_ft_wildcard returning the method names as they are, prefix kept
check_ft_wildcard_m(features, ft_methods, wildcard) ==
    IF features.t = "str" /\ Lower(features.v) = Lower(wildcard)
    THEN [t |-> "tuple",
          names |-> Map(LAMBDA m : m.name, ft_methods),
          mtds |-> Map(ExtendedItem, ft_methods)]
    ELSE PyNone

\* _check_ft_wildcard: all features if the wildcard matches, None otherwise
check_ft_wildcard(features, ft_methods, wildcard) ==
    IF features.t = "str" /\ Lower(features.v) = Lower(wildcard)
    THEN [t |-> "tuple",
          names |-> Map(LAMBDA m : remove_mtd_prefix(m.name), ft_methods),
          mtds |-> Map(ExtendedItem, ft_methods)]
    ELSE PyNone

UnknownFeature(name) == [cat |-> "UserWarning", msg |-> "Unknown feature", a |-> name, b |-> ""]

\* _process_features_warnings without its branch for a single string: the
\* loop then runs over the characters of the name
process_features_warnings_m(unknown_feats) ==
    IF unknown_feats.t # "str"
    THEN Map(UnknownFeature, unknown_feats.v)
    ELSE [i \in 1..Len(unknown_feats.v) |-> UnknownFeature(SubSeq(unknown_feats.v, i, i))]

\* _process_features_warnings
process_features_warnings(unknown_feats) ==
    IF unknown_feats.t # "str"
    THEN Map(UnknownFeature, unknown_feats.v)
    ELSE <<UnknownFeature(unknown_feats.v)>>

\* the matching loop of process_features over a collection of names, from
\* method i on: names and records collected, names left unconsumed
RECURSIVE FtLoopList(_, _, _, _, _)
FtLoopList(mtds, i, names, recs, left) ==
    IF i > Len(mtds) THEN [names |-> names, mtds |-> recs, left |-> left]
    ELSE LET n == remove_mtd_prefix(mtds[i].name) IN
         IF n \in Range(left)
         THEN FtLoopList(mtds, i + 1, Append(names, n),
                         Append(recs, ExtendedItem(mtds[i])), ListRemove(left, n))
         ELSE FtLoopList(mtds, i + 1, names, recs, left)

\* process_features on one canonical form and one method list
ProcessFeaturesOn(processed_ft, ft_mtds_filtered, wildcard, suppress_warnings) ==
    LET all_features_ret == check_ft_wildcard(processed_ft, ft_mtds_filtered, wildcard) IN
    IF all_features_ret.t # "None"
    THEN [names |-> all_features_ret.names, mtds |-> all_features_ret.mtds, warns |-> <<>>]
    ELSE IF processed_ft.t # "str"
    THEN LET r == FtLoopList(ft_mtds_filtered, 1, <<>>, <<>>, processed_ft.v) IN
         [names |-> r.names, mtds |-> r.mtds,
          warns |-> IF suppress_warnings THEN <<>>
                    ELSE process_features_warnings(PyList(r.left))]
    ELSE LET hit == {i \in 1..Len(ft_mtds_filtered) :
                        remove_mtd_prefix(ft_mtds_filtered[i].name) = processed_ft.v} IN
         IF hit # {}
         THEN LET i == CHOOSE k \in hit : \A j \in hit : k <= j IN
              [names |-> <<remove_mtd_prefix(ft_mtds_filtered[i].name)>>,
               mtds |-> <<ExtendedItem(ft_mtds_filtered[i])>>, warns |-> <<>>]
         ELSE [names |-> <<>>, mtds |-> <<>>,
               warns |-> IF suppress_warnings THEN <<>>
                         ELSE process_features_warnings(processed_ft)]

\* process_features: the possible results (names, records) with the
\* warnings issued
process_features(features, groups, wildcard, suppress_warnings) ==
    IF ~Truthy(features) THEN {[names |-> <<>>, mtds |-> <<>>, warns |-> <<>>]}
    ELSE {ProcessFeaturesOn(p, f, wildcard, suppress_warnings) :
             p \in preprocess_ft_arg(features), f \in filter_mtd_dict(groups)}

-----------------------------------------------------------------------------
(* mfe.py: MFE.__init__ *)

\* MFE.__init__: the possible outcomes, a new engine or the exception of
\* the first failing step
MFE_init(groups, features, summary, wildcard, suppress_warnings) ==
    UNION {
        IF g.exc # "" THEN {[exc |-> g.exc, names |-> g.names, msg |-> g.msg, of |-> "groups",
                             warns |-> <<>>]}
        ELSE UNION {
            {IF s.exc # ""
             THEN [exc |-> s.exc, names |-> s.names, msg |-> s.msg, of |-> "summary",
                   warns |-> f.warns]
             ELSE [exc |-> "", groups |-> g.ret, features |-> f.names,
                   ft_mtd_metadata |-> f.mtds, summary |-> s.ret, warns |-> f.warns] :
             s \in process_summary(summary)} :
            f \in process_features(features, g.ret, wildcard, suppress_warnings)} :
        g \in process_groups(groups)}

-----------------------------------------------------------------------------
(* _internal.py: check_data.  An array is its type and its shape. *)

NdArray(shape) == [t |-> "ndarray", shape |-> shape]
ListData(shape) == [t |-> "listdata", shape |-> shape]

\* number of elements of an array of the given shape
RECURSIVE Size(_)
Size(shape) == IF shape = <<>> THEN 1 ELSE Head(shape) * Size(Tail(shape))

\* y.flatten() with y cast to an array, as a plausible slip would have it:
\* the first dimension kept, the others not folded in
Flattened_m(y) == IF y.shape = <<>> THEN NdArray(<<1>>) ELSE NdArray(<<y.shape[1]>>)

\* y.flatten() with y cast to an array
Flattened(y) == NdArray(<<Size(y.shape)>>)

\* X.reshape(-1, *X.shape) in place of X.reshape(*X.shape, -1): a single row
Reshaped_m(X) ==
    IF Len(X.shape) = 1 THEN NdArray(<<1, X.shape[1]>>) ELSE NdArray(X.shape)

\* X cast to an array, and X.reshape(*X.shape, -1) when it has one dimension
\* of positive length: a single column
Reshaped(X) ==
    IF Len(X.shape) = 1 THEN NdArray(<<X.shape[1], 1>>) ELSE NdArray(X.shape)

\* check_data: the pair (X, y) reshaped and cast to arrays, or the exception
check_data(X, y) ==
    IF X.t \notin {"ndarray", "listdata"} THEN [exc |-> "TypeError", msg |-> "X"]
    ELSE IF y.t \notin {"ndarray", "listdata"} THEN [exc |-> "TypeError", msg |-> "y"]
    ELSE LET yf == Flattened(y) IN
         IF Len(X.shape) = 1 /\ X.shape[1] = 0
         THEN [exc |-> "ValueError", msg |-> "reshape"]
         ELSE LET Xr == Reshaped(X) IN
              IF Xr.shape = <<>> THEN [exc |-> "IndexError", msg |-> "shape"]
              ELSE IF Xr.shape[1] # yf.shape[1]
              THEN [exc |-> "ValueError", msg |-> "rows"]
              ELSE [exc |-> "", X |-> Xr, y |-> yf]

-----------------------------------------------------------------------------
(* mfe.py: MFE.fit.  self is the record of the attributes X, y, splits and *)
(* _custom_args_ft.                                                        *)

\* MFE.fit keeping the arguments built by an earlier fit
fit_m(self, X, y, splits) ==
    LET r == check_data(X, y) IN
    IF r.exc # "" THEN [exc |-> r.exc, msg |-> r.msg, self |-> self]
    ELSE LET s1 == [self EXCEPT !.X = r.X, !.y = r.y] IN
         IF splits.t # "None" /\ ~IsIterable(splits)
         THEN [exc |-> "TypeError", msg |-> "splits", self |-> s1]
         ELSE [exc |-> "", msg |-> "",
               self |-> [s1 EXCEPT !.splits = splits,
                                   !.custom_args_ft =
                                       IF self.custom_args_ft.t # "None"
                                       THEN self.custom_args_ft
                                       ELSE PyDict(<< <<"X", r.X>>, <<"y", r.y>>,
                                                      <<"splits", splits>> >>)]]

\* MFE.fit: the exception raised, if any, and the attributes afterwards
fit(self, X, y, splits) ==
    LET r == check_data(X, y) IN
    IF r.exc # "" THEN [exc |-> r.exc, msg |-> r.msg, self |-> self]
    ELSE LET s1 == [self EXCEPT !.X = r.X, !.y = r.y] IN
         IF splits.t # "None" /\ ~IsIterable(splits)
         THEN [exc |-> "TypeError", msg |-> "splits", self |-> s1]
         ELSE [exc |-> "", msg |-> "",
               self |-> [s1 EXCEPT !.splits = splits,
                                   !.custom_args_ft =
                                       PyDict(<< <<"X", r.X>>, <<"y", r.y>>,
                                                 <<"splits", splits>> >>)]]

-----------------------------------------------------------------------------
(* mfe.py: building the arguments of a routine *)

DictKeys(d) == {d[i][1] : i \in 1..Len(d)}
DictLookup(d, k) == d[CHOOSE i \in 1..Len(d) : d[i][1] = k][2]

\* {**b, **a} in place of {**a, **b}: the entries of a win
DictMerge_m(a, b) ==
    a \o SelectSeq(b, LAMBDA e : e[1] \notin DictKeys(a))

\* {**a, **b}
DictMerge(a, b) ==
    [i \in 1..Len(a) |-> IF a[i][1] \in DictKeys(b) THEN <<a[i][1], DictLookup(b, a[i][1])>>
                         ELSE a[i]]
        \o SelectSeq(b, LAMBDA e : e[1] \notin DictKeys(a))

\* hash(x) succeeds: a tuple is hashable when its elements are, a list never
RECURSIVE Hashable(_)
Hashable(x) ==
    CASE x.t = "list" -> FALSE
      [] x.t = "dict" -> FALSE
      [] x.t = "tuple" -> \A i \in 1..Len(x.v) : Hashable(x.v[i])
      [] OTHER -> TRUE

\* the overrides looked up without regard to the name of the routine
KwargsGet_m(kwargs, key) == IF kwargs = <<>> THEN PyNone ELSE kwargs[1][2]

\* kwargs.get(key) for a hashable key
KwargsGet(kwargs, key) ==
    IF key.t = "str" /\ key.v \in DictKeys(kwargs) THEN DictLookup(kwargs, key.v) ELSE PyNone

\* "k in c" for a string k and a list or a string c
PyIn(k, c) == IF c.t = "str" THEN StrContains(c.v, k) ELSE k \in Range(c.v)

UnknownArgument(arg, method_name) ==
    [cat |-> "UserWarning", msg |-> "Unknown argument", a |-> arg, b |-> method_name]

\* MFE._build_mtd_args with the warnings issued whatever suppress_warnings is
build_mtd_args_m(method_name, method_args, inner_custom_args, user_custom_args, suppress_warnings) ==
    LET user == IF user_custom_args.t = "None" THEN <<>> ELSE user_custom_args.v
        inner == IF inner_custom_args.t = "None" THEN <<>> ELSE inner_custom_args.v
        combined_args == DictMerge(user, inner)
    IN  [args |-> SelectSeq(combined_args, LAMBDA e : PyIn(e[1], method_args)),
         warns |-> Map(LAMBDA e : UnknownArgument(e[1], method_name),
                       SelectSeq(user, LAMBDA e : ~PyIn(e[1], method_args)))]

\* MFE._build_mtd_args: the kwargs dict of a callable and the warnings issued
build_mtd_args(method_name, method_args, inner_custom_args, user_custom_args, suppress_warnings) ==
    LET user == IF user_custom_args.t = "None" THEN <<>> ELSE user_custom_args.v
        inner == IF inner_custom_args.t = "None" THEN <<>> ELSE inner_custom_args.v
        combined_args == DictMerge(user, inner)
    IN  [args |-> SelectSeq(combined_args, LAMBDA e : PyIn(e[1], method_args)),
         warns |-> IF suppress_warnings THEN <<>>
                   ELSE Map(LAMBDA e : UnknownArgument(e[1], method_name),
                            SelectSeq(user, LAMBDA e : ~PyIn(e[1], method_args)))]

-----------------------------------------------------------------------------
(* mfe.py: invoking the routines.  The value a routine returns is the      *)
(* application of the routine to its arguments, left uninterpreted.        *)

NaN == [t |-> "nan"]
Scalar(f, args) == [t |-> "float", of |-> f, args |-> args]
Vector(f, args) == [t |-> "ndarray", of |-> f, args |-> args]

\* the registered method behind a feature callable
FtMethod(callable) ==
    CHOOSE m \in UNION {Range(MFE_CLASS_METHODS(VALID_GROUPS[i])) : i \in 1..Len(VALID_GROUPS)} :
        m.name = callable

\* method_callable(**method_args): "TypeError" when a parameter without
\* default is not supplied, otherwise what the body of the routine does
CallOutcome(method_callable, method_args, behaviour) ==
    IF ~(FtMethod(method_callable).req \subseteq DictKeys(method_args)) THEN "TypeError"
    ELSE behaviour[method_callable]

ErrorExtracting(method_name) ==
    [cat |-> "RuntimeWarning", msg |-> "Error extracting", a |-> method_name, b |-> "TypeError"]

\* MFE._get_feat_value
get_feat_value(method_name, method_args, method_callable, suppress_warnings, behaviour) ==
    LET out == CallOutcome(method_callable, method_args, behaviour) IN
    CASE out = "TypeError" ->
            [exc |-> "", features |-> NaN, out |-> out,
             warns |-> IF suppress_warnings THEN <<>> ELSE <<ErrorExtracting(method_name)>>]
      [] out = "Error" -> [exc |-> "RoutineError", features |-> NaN, out |-> out, warns |-> <<>>]
      [] out = "scalar" ->
            [exc |-> "", features |-> Scalar(method_callable, method_args), out |-> out,
             warns |-> <<>>]
      [] out = "None" -> [exc |-> "", features |-> PyNone, out |-> out, warns |-> <<>>]
      [] OTHER ->
            [exc |-> "", features |-> Vector(method_callable, method_args), out |-> out,
             warns |-> <<>>]

\* MFE._summarize: calling anything but a function is a TypeError, which
\* yields nan; a summary function applied to arguments it declares returns
SummarizeValue(features, callable_sum, callable_args, remove_nan) ==
    IF callable_sum.t # "function" THEN NaN
    ELSE [t |-> "float", of |-> callable_sum.v,
          args |-> <<features, callable_args, remove_nan>>]

FailedToSummarize(name_feature, name_summary) ==
    [cat |-> "RuntimeWarning", msg |-> "Failed to summarize", a |-> name_feature,
     b |-> name_summary]

\* MFE._check_summary_warnings
check_summary_warnings(value, name_feature, name_summary) ==
    IF value.t = "nan" THEN <<FailedToSummarize(name_feature, name_summary)>> ELSE <<>>

\* the loop of MFE._call_summary_methods from item i of self.summary on
RECURSIVE SummaryLoop(_, _, _, _, _, _, _, _)
SummaryLoop(summary, i, feature_values, feature_name, remove_nan, suppress_warnings, kwargs, acc) ==
    IF i > Len(summary) THEN acc
    ELSE LET item == summary[i].v IN
         IF Len(item) # 3 THEN [acc EXCEPT !.exc = "ValueError", !.msg = "unpack"]
         ELSE LET sm_mtd_name == item[1]
                  sm_mtd_callable == item[2]
                  sm_mtd_args == item[3]
              IN
              IF ~Hashable(sm_mtd_name)
              THEN [acc EXCEPT !.exc = "TypeError", !.msg = "unhashable"]
              ELSE LET pack == build_mtd_args(sm_mtd_name.v, sm_mtd_args, PyNone,
                                              KwargsGet(kwargs, sm_mtd_name),
                                              suppress_warnings)
                       val == SummarizeValue(feature_values, sm_mtd_callable, pack.args,
                                             remove_nan)
                       w == IF suppress_warnings THEN <<>>
                            ELSE check_summary_warnings(val, feature_name, sm_mtd_name.v)
                   IN SummaryLoop(summary, i + 1, feature_values, feature_name, remove_nan,
                                  suppress_warnings, kwargs,
                                  [acc EXCEPT
                                     !.vals = Append(@, val),
                                     !.names = Append(@, feature_name \o "." \o sm_mtd_name.v),
                                     !.warns = @ \o pack.warns \o w,
                                     !.calls = Append(@, [name |-> sm_mtd_name.v,
                                                          kind |-> "summary",
                                                          declared |-> sm_mtd_args,
                                                          args |-> pack.args,
                                                          out |-> val.t])])

EmptyAcc == [exc |-> "", msg |-> "", names |-> <<>>, vals |-> <<>>, warns |-> <<>>,
             calls |-> <<>>]

\* MFE._call_summary_methods
call_summary_methods(summary, feature_values, feature_name, remove_nan, suppress_warnings, kwargs) ==
    SummaryLoop(summary, 1, feature_values, feature_name, remove_nan, suppress_warnings,
                kwargs, EmptyAcc)

\* the loop of MFE.extract from feature i of self._ft_mtd_metadata on
RECURSIVE ExtractLoop(_, _, _, _, _, _, _, _)
ExtractLoop(self, i, remove_nan, suppress_warnings, kwargs, behaviour, summary, acc) ==
    IF i > Len(self.ft_mtd_metadata) THEN acc
    ELSE LET mtd == self.ft_mtd_metadata[i]
             ft_name_without_prefix == remove_mtd_prefix(mtd.name)
             pack == build_mtd_args(ft_name_without_prefix, PyList(mtd.args),
                                    self.custom_args_ft,
                                    KwargsGet(kwargs, PyStr(ft_name_without_prefix)),
                                    suppress_warnings)
             got == get_feat_value(mtd.name, pack.args, mtd.callable, suppress_warnings,
                                   behaviour)
             call == [name |-> ft_name_without_prefix, kind |-> "feature",
                      declared |-> PyList(mtd.args), args |-> pack.args, out |-> got.out]
             acc1 == [acc EXCEPT !.warns = @ \o pack.warns \o got.warns,
                                 !.calls = Append(@, call)]
         IN
         IF got.exc # "" THEN [acc1 EXCEPT !.exc = got.exc, !.msg = mtd.name]
         ELSE IF got.features.t = "ndarray"
         THEN LET sm == call_summary_methods(summary, got.features, ft_name_without_prefix,
                                             remove_nan, suppress_warnings, kwargs)
                  acc2 == [acc1 EXCEPT !.vals = @ \o sm.vals, !.names = @ \o sm.names,
                                       !.warns = @ \o sm.warns, !.calls = @ \o sm.calls]
              IN IF sm.exc # "" THEN [acc2 EXCEPT !.exc = sm.exc, !.msg = sm.msg]
                 ELSE ExtractLoop(self, i + 1, remove_nan, suppress_warnings, kwargs,
                                  behaviour, summary, acc2)
         ELSE ExtractLoop(self, i + 1, remove_nan, suppress_warnings, kwargs, behaviour,
                          summary,
                          [acc1 EXCEPT !.vals = Append(@, got.features),
                                       !.names = Append(@, ft_name_without_prefix)])

\* the opening test of MFE.extract left out
NotFitted_m(X, y) == FALSE

\* the test that opens MFE.extract: no fitted data
NotFitted(X, y) == X.t = "None" \/ y.t = "None"

\* the assignment of the checked data with the fit context dropped as well
StoreChecked_m(self, chk) ==
    [self EXCEPT !.X = chk.X, !.y = chk.y, !.custom_args_ft = PyNone]

\* self.X, self.y = ...: the only attributes MFE.extract assigns
StoreChecked(self, chk) == [self EXCEPT !.X = chk.X, !.y = chk.y]

\* MFE.extract with self._ft_mtd_metadata held as an iterator, which the
\* loop over it exhausts
extract_m(self, remove_nan, suppress_warnings, kwargs, behaviour) ==
    IF NotFitted(self.X, self.y)
    THEN [EmptyAcc EXCEPT !.exc = "TypeError", !.msg = "not fitted"] @@ [self |-> self]
    ELSE LET chk == IF self.X.t # "ndarray" \/ self.y.t # "ndarray"
                    THEN check_data(self.X, self.y)
                    ELSE [exc |-> "", X |-> self.X, y |-> self.y]
         IN IF chk.exc # ""
            THEN [EmptyAcc EXCEPT !.exc = chk.exc, !.msg = chk.msg] @@ [self |-> self]
            ELSE LET s1 == StoreChecked(self, chk) IN
                 ExtractLoop(s1, 1, remove_nan, suppress_warnings, kwargs, behaviour,
                             s1.summary, EmptyAcc)
                     @@ [self |-> [s1 EXCEPT !.ft_mtd_metadata = <<>>]]

\* MFE.extract: the exception raised if any, the attributes afterwards, the
\* (names, values) built, the warnings issued and the routines invoked
extract(self, remove_nan, suppress_warnings, kwargs, behaviour) ==
    IF NotFitted(self.X, self.y)
    THEN [EmptyAcc EXCEPT !.exc = "TypeError", !.msg = "not fitted"] @@ [self |-> self]
    ELSE LET chk == IF self.X.t # "ndarray" \/ self.y.t # "ndarray"
                    THEN check_data(self.X, self.y)
                    ELSE [exc |-> "", X |-> self.X, y |-> self.y]
         IN IF chk.exc # ""
            THEN [EmptyAcc EXCEPT !.exc = chk.exc, !.msg = chk.msg] @@ [self |-> self]
            ELSE LET s1 == StoreChecked(self, chk) IN
                 ExtractLoop(s1, 1, remove_nan, suppress_warnings, kwargs, behaviour,
                             s1.summary, EmptyAcc) @@ [self |-> s1]

-----------------------------------------------------------------------------
(* Selections offered to the constructor *)

\* the collections of at most n of the given names, repetitions included;
\* the functions under examination pass every collection through set(), so
\* each collection is offered in one order of its elements only
Collections(atoms, n) ==
    UNION {{[i \in 1..k |-> atoms[q[i]]] :
               q \in {p \in [1..k -> 1..Len(atoms)] :
                         \A i, j \in 1..k : i <= j => p[i] <= p[j]}} : k \in 0..n}

Selections(atoms) ==
    {PyNone, PyStr("")} \cup {PyStr(atoms[i]) : i \in 1..Len(atoms)}
        \cup {PyList(q) : q \in Collections(atoms, MaxSel)}

\* names offered: registered ones in two spellings, the default select-all
\* token, and "any", which is registered nowhere
GroupAtoms == <<"General", "all", "any">>
FeatureAtoms == <<"nr_inst", "NR_INST", "sd", "all", "any">>
SummaryAtoms == <<"Mean", "all", "any">>
Wildcards == {"all", "any"}

Pending == [exc |-> "pending"]
Unused == [t |-> "unused"]

\* no call on the engine is returning
Idle == [op |-> "idle"]

\* the attributes of a new engine, before __init__ has run
\* no fit has succeeded yet
NoFit == [ctx |-> PyNone, replaced |-> FALSE]

NoEngine ==
    /\ self_groups = <<>> /\ self_features = <<>> /\ self_ft_mtd_metadata = <<>>
    /\ self_summary = <<>> /\ self_X = PyNone /\ self_y = PyNone /\ self_splits = PyNone
    /\ self_custom_args_ft = PyNone
    /\ behav = <<>> /\ fit_called = FALSE /\ ret = Idle
    /\ last_fit = NoFit

\* no routine of the feature modules is under examination
NoRoutine == pre_in = Unused /\ pre_out = Unused /\ cx_in = Unused /\ cx_out = Unused

CtorInit ==
    /\ ctor_in \in [groups : Selections(GroupAtoms), features : Selections(FeatureAtoms),
                    summary : Selections(SummaryAtoms), wildcard : Wildcards,
                    suppress_warnings : BOOLEAN]
    /\ ctor_out = Pending
    /\ fit_in = Unused
    /\ NoEngine
    /\ NoRoutine

\* the call of MFE(...) on the arguments at hand
Construct ==
    /\ ctor_out = Pending
    /\ ctor_out' \in MFE_init(ctor_in.groups, ctor_in.features, ctor_in.summary,
                              ctor_in.wildcard, ctor_in.suppress_warnings)
    /\ UNCHANGED <<ctor_in, fit_in, self_groups, self_features, self_ft_mtd_metadata,
                   self_summary, self_X, self_y, self_splits, self_custom_args_ft, behav,
                   fit_called, last_fit, ret, pre_in, pre_out, cx_in, cx_out>>

vars == <<self_groups, self_features, self_ft_mtd_metadata, self_summary, self_X, self_y,
          self_splits, self_custom_args_ft, behav, fit_called, last_fit, ret, fit_in, ctor_in,
          ctor_out, pre_in, pre_out, cx_in, cx_out>>

SpecCtor == CtorInit /\ [][Construct]_vars

-----------------------------------------------------------------------------
(* The engine: an MFE object after construction, under calls of fit and    *)
(* extract                                                                 *)

\* what the body of a feature routine may do when called with its required
\* parameters: return a number, return a sequence, return None, raise
\* TypeError, raise another exception
Outcomes == {"scalar", "vector", "None", "TypeError", "Error"}

\* constructor calls of the engines examined
EngineArgs ==
    [groups : {PyStr("all"), PyStr("general")},
     features : {PyStr("all"), PyStr("nr_inst"), PyList(<<"bogus">>)},
     summary : {PyStr("mean"), PyList(<<"mean", "sd">>), PyStr("all")},
     wildcard : {"all"}, suppress_warnings : {FALSE}]

Callables(mtds) == {mtds[i].callable : i \in 1..Len(mtds)}

Self ==
    [groups |-> self_groups, features |-> self_features,
     ft_mtd_metadata |-> self_ft_mtd_metadata, summary |-> self_summary, X |-> self_X, y |-> self_y, splits |-> self_splits,
     custom_args_ft |-> self_custom_args_ft]

Init ==
    /\ \E a \in EngineArgs :
         \E o \in MFE_init(a.groups, a.features, a.summary, a.wildcard, a.suppress_warnings) :
            /\ o.exc = ""
            /\ self_groups = o.groups
            /\ self_features = o.features
            /\ self_ft_mtd_metadata = o.ft_mtd_metadata
            /\ self_summary = o.summary
            /\ behav \in [Callables(o.ft_mtd_metadata) -> Outcomes]
    /\ self_X = PyNone
    /\ self_y = PyNone
    /\ self_splits = PyNone
    /\ self_custom_args_ft = PyNone
    /\ fit_called = FALSE
    /\ last_fit = NoFit
    /\ ret = Idle
    /\ fit_in = Unused
    /\ ctor_in = Unused
    /\ ctor_out = Unused
    /\ NoRoutine

\* arrays of at most two dimensions
Shapes(dims) == {<<>>} \cup [1..1 -> dims] \cup [1..2 -> dims]

FitX == {NdArray(<<2, 2>>), ListData(<<1>>), PyStr("not an array")}
FitY == {NdArray(<<2>>), ListData(<<1>>)}
FitSplits == {PyNone, PyList(<<"fold">>), PyInt(3)}

\* the data a fit is given, as arrays, and its splits
GivenContext(Xin, yin, sp) ==
    LET d == check_data(Xin, yin) IN
    PyDict(<< <<"X", d.X>>, <<"y", d.y>>, <<"splits", sp>> >>)

\* a call self.fit(Xin, yin, sp)
Fit(Xin, yin, sp) ==
    LET r == fit(Self, Xin, yin, sp) IN
    /\ ret = Idle
    /\ self_X' = r.self.X
    /\ self_y' = r.self.y
    /\ self_splits' = r.self.splits
    /\ self_custom_args_ft' = r.self.custom_args_ft
    /\ fit_called' = TRUE
    /\ last_fit' = IF r.exc # "" THEN last_fit
                   ELSE [ctx |-> GivenContext(Xin, yin, sp),
                         replaced |-> \/ last_fit.replaced
                                      \/ last_fit.ctx \notin {PyNone, GivenContext(Xin, yin, sp)}]
    /\ ret' = [op |-> "fit", exc |-> r.exc, msg |-> r.msg]
    /\ self_groups' = r.self.groups
    /\ self_features' = r.self.features
    /\ self_ft_mtd_metadata' = r.self.ft_mtd_metadata
    /\ self_summary' = r.self.summary
    /\ UNCHANGED <<behav, fit_in, ctor_in, ctor_out, pre_in, pre_out, cx_in, cx_out>>

UserValue(k) == [t |-> "user", v |-> k]

OverrideNames == {"sd", "mean"}
OverrideKeys == <<"X", "ddof", "gram">>

\* the dicts of at most n of the given keys
Dicts(keys, n) ==
    UNION {{[i \in 1..k |-> <<keys[q[i]], UserValue(keys[q[i]])>>] :
               q \in {p \in [1..k -> 1..Len(keys)] :
                         \A i, j \in 1..k : i < j => p[i] < p[j]}} : k \in 1..n}

\* the keyword arguments of extract: nothing, or overrides for one routine
Kwargs ==
    {<<>>} \cup {<< <<r, PyDict(d)>> >> : r \in OverrideNames, d \in Dicts(OverrideKeys, MaxKeys)}

\* a call self.extract(remove_nan, suppress_warnings, **kwargs)
Extract(remove_nan, suppress_warnings, kwargs) ==
    LET r == extract(Self, remove_nan, suppress_warnings, kwargs, behav) IN
    /\ ret = Idle
    /\ self_X' = r.self.X
    /\ self_y' = r.self.y
    /\ ret' = [op |-> "extract", exc |-> r.exc, msg |-> r.msg,
               names |-> IF r.exc = "" THEN r.names ELSE <<>>,
               vals |-> IF r.exc = "" THEN r.vals ELSE <<>>,
               warns |-> r.warns, calls |-> r.calls,
               remove_nan |-> remove_nan, suppress_warnings |-> suppress_warnings,
               kwargs |-> kwargs]
    /\ self_splits' = r.self.splits
    /\ self_custom_args_ft' = r.self.custom_args_ft
    /\ self_groups' = r.self.groups
    /\ self_features' = r.self.features
    /\ self_ft_mtd_metadata' = r.self.ft_mtd_metadata
    /\ self_summary' = r.self.summary
    /\ UNCHANGED <<behav, fit_called, last_fit, fit_in, ctor_in, ctor_out, pre_in, pre_out,
                   cx_in, cx_out>>

\* the caller takes the outcome of the call and goes on, as the script at
\* the end of mfe.py does between fit and extract
Continue ==
    /\ ret # Idle
    /\ ret' = Idle
    /\ UNCHANGED <<self_groups, self_features, self_ft_mtd_metadata, self_summary, self_X,
                   self_y, self_splits, self_custom_args_ft, behav, fit_called, last_fit,
                   fit_in, ctor_in, ctor_out, pre_in, pre_out, cx_in, cx_out>>

Next ==
    \/ \E Xin \in FitX, yin \in FitY, sp \in FitSplits : Fit(Xin, yin, sp)
    \/ \E remove_nan \in BOOLEAN, suppress_warnings \in BOOLEAN, kwargs \in Kwargs :
          Extract(remove_nan, suppress_warnings, kwargs)
    \/ Continue

Spec == Init /\ [][Next]_vars

-----------------------------------------------------------------------------
(* fit on its own, on a new engine: every pair of inputs of at most two    *)
(* dimensions, and the arrays of three dimensions for X                    *)

FitArgs ==
    LET data == {NdArray(s) : s \in Shapes(0..MaxDim)}
                   \cup {ListData(s) : s \in Shapes(0..MaxDim) \ {<<>>}}
                   \cup {PyStr("not an array"), PyNone}
        cubes == {NdArray(s) : s \in [1..3 -> 0..MaxDim]}
    IN [X : data \cup cubes, y : data, splits : FitSplits]

FitInit ==
    /\ fit_in \in FitArgs
    /\ NoEngine
    /\ ctor_in = Unused
    /\ ctor_out = Unused
    /\ NoRoutine

FitCall == Fit(fit_in.X, fit_in.y, fit_in.splits)

SpecFit == FitInit /\ [][FitCall]_vars

-----------------------------------------------------------------------------
(* Properties of fit and extract *)

\* the calls of feature routines made by the last extract, in order
FeatureCalls == SelectSeq(ret.calls, LAMBDA c : c.kind = "feature")

\* extract went past its test for fitted data
ExtractBegun == ret.op = "extract" /\ ret.msg # "not fitted"

\* no selected feature routine raises anything but TypeError
NoRoutineError == \A c \in DOMAIN behav : behav[c] # "Error"

\* the summary names selected at construction, in order
SelectedSummaries == Map(LAMBDA n : n.v, self_summary[1].v)

\* C1: fit followed by extract returns a pair (names, values) of two
\* sequences of the same length
C1_ExtractReturnsEqualLengths ==
    (ExtractBegun /\ NoRoutineError) =>
        /\ ret.exc = ""
        /\ Len(ret.names) = Len(ret.vals)

\* C2: a failure raised by a routine during extract never aborts the call:
\* extract returns, having invoked every selected feature routine
C2_FailureNeverAborts ==
    (/\ ExtractBegun
     /\ \E i \in 1..Len(ret.calls) : ret.calls[i].out \in {"TypeError", "Error"}) =>
        /\ ret.exc = ""
        /\ Len(FeatureCalls) = Len(self_ft_mtd_metadata)

\* what a feature routine contributes to the names, by what it returned
Contribution(c) ==
    IF c.out = "vector" THEN Map(LAMBDA sm : c.name \o "." \o sm, SelectedSummaries)
    ELSE <<c.name>>

\* C3: in the output of extract a routine that returned a scalar contributes
\* one entry under its bare name and a routine that returned a sequence one
\* entry <feature>.<summary> per selected summary, in selection order
C3_ScalarBareVectorPerSummary ==
    (ExtractBegun /\ NoRoutineError) =>
        ret.names = Flatten(Map(Contribution, FeatureCalls))

\* C4: extract on an engine on which fit was never called fails with the
\* state error and returns nothing
C4_ExtractUnfittedFails ==
    (ret.op = "extract" /\ ~fit_called) =>
        /\ ret.exc = "TypeError"
        /\ ret.msg = "not fitted"
        /\ ret.names = <<>>
        /\ ret.vals = <<>>
        /\ ret.calls = <<>>

C4_Witness == ret.op = "extract" /\ ~fit_called /\ self_ft_mtd_metadata # <<>>

IsArrayOrList(d) == d.t \in {"ndarray", "listdata"}

\* C5: fit raises a value error when the rows of X differ in number from the
\* elements of y, and a type error when X or y is neither array nor list
C5_FitRejectsBadData ==
    ret.op = "fit" =>
        /\ (/\ IsArrayOrList(fit_in.X) /\ IsArrayOrList(fit_in.y)
            /\ fit_in.X.shape # <<>>
            /\ fit_in.X.shape[1] # Size(fit_in.y.shape)) => ret.exc = "ValueError"
        /\ (~IsArrayOrList(fit_in.X) \/ ~IsArrayOrList(fit_in.y)) => ret.exc = "TypeError"

C5_Witness ==
    /\ ret.op = "fit"
    /\ ret.exc = "ValueError"
    /\ Len(fit_in.y.shape) = 2
    /\ fit_in.X.shape[1] = fit_in.y.shape[1]

\* the parameters of a feature call that the routine declares and that both
\* the user overrides and the fit context supply
Contested(c) ==
    LET user == KwargsGet(ret.kwargs, PyStr(c.name)) IN
    IF user.t = "None" \/ self_custom_args_ft.t = "None" THEN {}
    ELSE {k \in DictKeys(user.v) \cap DictKeys(self_custom_args_ft.v) : PyIn(k, c.declared)}

\* C6 as stated: a parameter supplied by both the user overrides and the
\* engine is passed with the value of the user override
C6_UserOverrideWins ==
    ret.op = "extract" =>
        \A i \in 1..Len(FeatureCalls) : \A k \in Contested(FeatureCalls[i]) :
            DictLookup(FeatureCalls[i].args, k) = UserValue(k)

\* C6 amended: a parameter supplied by both the user overrides and the
\* engine is passed with the value the engine supplies
C6_EngineValueWins ==
    ret.op = "extract" =>
        \A i \in 1..Len(FeatureCalls) : \A k \in Contested(FeatureCalls[i]) :
            /\ k \in DictKeys(FeatureCalls[i].args)
            /\ DictLookup(FeatureCalls[i].args, k) = DictLookup(self_custom_args_ft.v, k)

C6_Witness ==
    /\ ret.op = "extract"
    /\ \E i \in 1..Len(FeatureCalls) : Contested(FeatureCalls[i]) # {}

\* the parameter names of the routine a call was made for
DeclaredBy(c) ==
    IF c.kind = "summary" THEN Range(SummaryMethod(c.name).args)
    ELSE Range(FtMethod(MTF_PREFIX \o c.name).args)

\* C7: the arguments built for a routine are among the parameters it
\* declares, and every user override it does not declare is dropped with,
\* unless warnings are suppressed, exactly one warning naming key and routine
C7_OnlyDeclaredForwarded ==
    ret.op = "extract" =>
        \A i \in 1..Len(ret.calls) :
            LET c == ret.calls[i]
                user == KwargsGet(ret.kwargs, PyStr(c.name))
                keys == IF user.t = "None" THEN {} ELSE DictKeys(user.v)
            IN /\ DictKeys(c.args) \subseteq DeclaredBy(c)
               /\ \A k \in keys \ DeclaredBy(c) :
                     /\ k \notin DictKeys(c.args)
                     /\ ~ret.suppress_warnings =>
                           Cardinality({j \in 1..Len(ret.warns) :
                                           ret.warns[j] = UnknownArgument(k, c.name)})
                              = Cardinality({j \in 1..Len(ret.calls) :
                                               ret.calls[j].name = c.name})

-----------------------------------------------------------------------------
(* Properties of construction *)

Constructed == ctor_out # Pending /\ ctor_out # Unused

\* the names of a selection, lower-cased
Requested(sel) ==
    CASE sel.t = "str" -> {Lower(sel.v)}
      [] sel.t = "list" -> {Lower(n) : n \in Range(sel.v)}
      [] OTHER -> {}

\* C8: construction with an empty or absent groups or summary selection, or
\* with an unrecognised group or summary name, fails with an
\* invalid-argument error that lists the offending names
C8_BadSelectionFails ==
    Constructed =>
        LET badG == Requested(ctor_in.groups) \ (Range(VALID_GROUPS) \cup {"all"})
            badS == Requested(ctor_in.summary) \ (Range(VALID_SUMMARY) \cup {"all"})
            okG == Truthy(ctor_in.groups) /\ badG = {}
        IN /\ ~Truthy(ctor_in.groups) =>
                 ctor_out.exc = "ValueError" /\ ctor_out.of = "groups"
           /\ (Truthy(ctor_in.groups) /\ badG # {}) =>
                 /\ ctor_out.exc = "ValueError"
                 /\ ctor_out.of = "groups"
                 /\ Range(ctor_out.names) = badG
           /\ (okG /\ ~Truthy(ctor_in.summary)) =>
                 ctor_out.exc = "ValueError" /\ ctor_out.of = "summary"
           /\ (okG /\ Truthy(ctor_in.summary) /\ badS # {}) =>
                 /\ ctor_out.exc = "ValueError"
                 /\ ctor_out.of = "summary"
                 /\ Range(ctor_out.names) = badS

\* every feature routine of the registry, by its name without prefix
RegisteredFeatures ==
    {remove_mtd_prefix(m.name) :
        m \in UNION {Range(MFE_CLASS_METHODS(VALID_GROUPS[i])) : i \in 1..Len(VALID_GROUPS)}}

\* the features argument is one name, alone or in a collection, that is
\* neither a registered feature nor the select-all token
OneUnknownFeature ==
    /\ \/ ctor_in.features.t = "str" /\ ctor_in.features.v # ""
       \/ ctor_in.features.t = "list" /\ Len(ctor_in.features.v) = 1
    /\ \A n \in Requested(ctor_in.features) :
          n \notin RegisteredFeatures /\ n # Lower(ctor_in.wildcard)

\* the groups argument is accepted by process_groups
GroupsAccepted == \A o \in process_groups(ctor_in.groups) : o.exc = ""

\* C9: a features selection of one name that matches no registered feature,
\* with warnings not suppressed, yields exactly one warning and an empty
\* selection, and the feature selection raises nothing
C9_UnknownFeatureWarnsOnce ==
    (Constructed /\ GroupsAccepted /\ OneUnknownFeature /\ ~ctor_in.suppress_warnings) =>
        /\ Len(ctor_out.warns) = 1
        /\ \A n \in Requested(ctor_in.features) : ctor_out.warns[1] = UnknownFeature(n)
        /\ ctor_out.exc # "" => ctor_out.of = "summary"
        /\ ctor_out.exc = "" => ctor_out.features = <<>> /\ ctor_out.ft_mtd_metadata = <<>>

C9_Witness ==
    /\ Constructed /\ OneUnknownFeature /\ ~ctor_in.suppress_warnings
    /\ ctor_out.exc = ""
    /\ ctor_in.features.t = "str"
    /\ Len(ctor_out.warns) = 1

\* the features of the groups an engine selected
Available(grps) ==
    {remove_mtd_prefix(m.name) : m \in UNION {Range(MFE_CLASS_METHODS(g)) : g \in Range(grps)}}

\* C10: with warnings not suppressed, feature selection warns exactly once
\* for each requested name, compared without regard to case, that matches no
\* feature of the selected groups, never for a name that matched, and
\* selects every name that matched
C10_OneWarningPerUnknownName ==
    (/\ Constructed /\ ctor_out.exc = "" /\ ~ctor_in.suppress_warnings
     /\ Truthy(ctor_in.features)
     /\ ~(ctor_in.features.t = "str" /\ Lower(ctor_in.features.v) = Lower(ctor_in.wildcard))) =>
        LET unknown == Requested(ctor_in.features) \ Available(ctor_out.groups)
            matched == Requested(ctor_in.features) \cap Available(ctor_out.groups)
        IN /\ Len(ctor_out.warns) = Cardinality(unknown)
           /\ Range(ctor_out.warns) = {UnknownFeature(n) : n \in unknown}
           /\ Range(ctor_out.features) = matched

-----------------------------------------------------------------------------
(* Properties of the select-all token *)

\* the select-all token of process_groups and process_summary
DefaultWildcard == "all"

\* the argument is the given select-all token as a bare string, in any case
IsWildcard(sel, token) == sel.t = "str" /\ Lower(sel.v) = Lower(token)

\* an engine was constructed without error
Built == Constructed /\ ctor_out.exc = ""

\* C11: selecting the wildcard for groups, for features or for summary
\* selects what the explicit enumeration of every registered group, of every
\* feature of the selected groups, or of every registered summary selects:
\* the same groups and the same routines offered by them, the same possible
\* results of the feature selection, the same summary names and records
C11_WildcardIsEnumeration ==
    Built =>
        /\ IsWildcard(ctor_in.groups, DefaultWildcard) =>
              LET byName == process_groups(PyList(VALID_GROUPS)) IN
              /\ \A r \in byName : r.exc = "" /\ Range(r.ret) = Range(ctor_out.groups)
              /\ filter_mtd_dict((CHOOSE r \in byName : TRUE).ret)
                    = filter_mtd_dict(ctor_out.groups)
        /\ IsWildcard(ctor_in.features, ctor_in.wildcard) =>
              LET byToken == process_features(ctor_in.features, ctor_out.groups,
                                              ctor_in.wildcard, ctor_in.suppress_warnings)
              IN /\ [names |-> ctor_out.features, mtds |-> ctor_out.ft_mtd_metadata,
                     warns |-> ctor_out.warns] \in byToken
                 /\ \A q \in TupleOfSet(Available(ctor_out.groups)) :
                       process_features(PyList(q), ctor_out.groups, ctor_in.wildcard,
                                        ctor_in.suppress_warnings) = byToken
        /\ IsWildcard(ctor_in.summary, DefaultWildcard) =>
              \A s \in process_summary(PyList(VALID_SUMMARY)) :
                 /\ s.exc = ""
                 /\ Range(s.ret[1].v) = Range(ctor_out.summary[1].v)
                 /\ Range(s.ret[2].v) = Range(ctor_out.summary[2].v)

C11_Witness ==
    /\ Built
    /\ IsWildcard(ctor_in.groups, DefaultWildcard)
    /\ IsWildcard(ctor_in.features, ctor_in.wildcard)
    /\ IsWildcard(ctor_in.summary, DefaultWildcard)
    /\ Len(ctor_out.features) = 2
    /\ Len(ctor_out.summary[1].v) = 3

\* C12: the token passed as the wildcard argument is the select-all token of
\* groups, of features and of summary: given in any letter case as one of
\* them, it selects every option of that category
C12_WildcardArgumentSelectsAll ==
    Constructed =>
        /\ IsWildcard(ctor_in.groups, ctor_in.wildcard) =>
              /\ ~(ctor_out.exc # "" /\ ctor_out.of = "groups")
              /\ Built => Range(ctor_out.groups) = Range(VALID_GROUPS)
        /\ (Built /\ IsWildcard(ctor_in.features, ctor_in.wildcard)) =>
              Range(ctor_out.features) = Available(ctor_out.groups)
        /\ (IsWildcard(ctor_in.summary, ctor_in.wildcard)
               /\ ~(ctor_out.exc # "" /\ ctor_out.of = "groups")) =>
              /\ Built
              /\ Range(ctor_out.summary[1].v) = {PyStr(n) : n \in Range(VALID_SUMMARY)}

-----------------------------------------------------------------------------
(* Further properties of fit and extract *)

\* the engine selected the one group "general", all its features, and one
\* summary function
OneGroupOneSummary ==
    /\ self_groups = <<"general">>
    /\ Len(self_ft_mtd_metadata) = Len(MFE_CLASS_METHODS("general"))
    /\ Len(self_summary[1].v) = 1

\* C13: on an engine of one group and one summary S, a fit followed by
\* extract returns without exception one output per feature routine of the
\* group, each named <feature>.S, whatever the routines return
C13_OneOutputPerRoutineSuffixed ==
    (ExtractBegun /\ NoRoutineError /\ OneGroupOneSummary) =>
        /\ ret.exc = ""
        /\ Len(ret.names) = Len(self_ft_mtd_metadata)
        /\ \A i \in 1..Len(ret.names) :
              ret.names[i] = remove_mtd_prefix(self_ft_mtd_metadata[i].name)
                                \o "." \o SelectedSummaries[1]

\* the attributes fit assigns: the fit context
FitContext == <<self_X, self_y, self_splits, self_custom_args_ft>>

\* C14: extract leaves the fit context unchanged, and called again with the
\* same arguments on the engine it returns from, with no fit in between, it
\* has the same outcome: the same names and values, or the same exception
C14_ExtractIsIdempotent ==
    [][ret'.op = "extract" =>
          /\ FitContext' = FitContext
          /\ LET again == extract(Self', ret'.remove_nan, ret'.suppress_warnings,
                                   ret'.kwargs, behav')
             IN /\ again.exc = ret'.exc
                /\ again.exc = "" => again.names = ret'.names /\ again.vals = ret'.vals
                /\ again.calls = ret'.calls
                /\ again.self = Self']_vars

C14_Witness ==
    /\ ret.op = "extract" /\ ret.exc = ""
    /\ Len(ret.names) = 2
    /\ ret.kwargs # <<>>
    /\ \E i \in 1..Len(ret.vals) : ret.vals[i].t = "float"

\* the feature names of the registry in registry order: the groups as
\* VALID_GROUPS lists them, the routines of a group as its class lists them
RegistryOrder ==
    Map(LAMBDA m : remove_mtd_prefix(m.name), Flatten(Map(MFE_CLASS_METHODS, VALID_GROUPS)))

\* q lists some of the elements of r, in the order r has them
InOrderOf(q, r) ==
    \E pos \in [1..Len(q) -> 1..Len(r)] :
        /\ \A i \in 1..Len(q) : r[pos[i]] = q[i]
        /\ \A i, j \in 1..Len(q) : i < j => pos[i] < pos[j]

\* C15: the order of the output of extract is determined by the selection:
\* the feature routines are invoked, and their outputs listed, in registry
\* order
C15_OutputInRegistryOrder ==
    (ExtractBegun /\ NoRoutineError) =>
        InOrderOf(Map(LAMBDA c : c.name, FeatureCalls), RegistryOrder)

\* the parameters a feature routine takes from the fit context
ContextKeys == {"X", "y", "splits"}

\* C16: after a fit has succeeded, every feature routine invoked by extract
\* receives, for each parameter it takes from the fit context, the value
\* given to the most recent successful fit, whatever earlier fits were given
C16_RefitReplacesContext ==
    (ret.op = "extract" /\ last_fit.ctx # PyNone) =>
        \A i \in 1..Len(FeatureCalls) :
            LET c == FeatureCalls[i] IN
            \A k \in ContextKeys \cap Range(c.declared.v) :
                /\ k \in DictKeys(c.args)
                /\ DictLookup(c.args, k) = DictLookup(last_fit.ctx.v, k)

C16_Witness ==
    /\ ret.op = "extract"
    /\ last_fit.replaced
    /\ \E i \in 1..Len(FeatureCalls) : "X" \in DictKeys(FeatureCalls[i].args)

\* the selection computed at construction
Selection == <<self_groups, self_features, self_ft_mtd_metadata, self_summary>>

\* C17: no call of fit or extract, failing or not, changes the selection
\* computed at construction
C17_SelectionNeverChanges ==
    [][Selection' = Selection]_vars

C17_Witness ==
    /\ ExtractBegun /\ ret.exc # ""
    /\ last_fit.replaced
    /\ self_ft_mtd_metadata # <<>>

\* a fit has succeeded on the engine
Fitted == last_fit.ctx # PyNone

\* C18: after a successful fit the stored X has two dimensions, an X given
\* with one dimension having become a single column, the stored y has one
\* dimension, and X has as many rows as y has elements
C18_StoredDataWellShaped ==
    Fitted =>
        /\ Len(self_X.shape) = 2
        /\ Len(fit_in.X.shape) = 1 => self_X.shape = <<fit_in.X.shape[1], 1>>
        /\ Len(self_y.shape) = 1
        /\ self_X.shape[1] = self_y.shape[1]

\* C18 as the code has it: the stored y has one dimension and the first
\* dimension of the stored X is the length of y; the stored X has two
\* dimensions when the X given has one, which becomes a single column, or
\* two, and the dimensions it was given with when these are more than two
C18_WellShapedForMatrixInput ==
    Fitted =>
        /\ Len(self_y.shape) = 1
        /\ self_X.shape[1] = self_y.shape[1]
        /\ Len(fit_in.X.shape) = 1 => self_X.shape = <<fit_in.X.shape[1], 1>>
        /\ Len(fit_in.X.shape) = 2 => self_X.shape = fit_in.X.shape
        /\ Len(fit_in.X.shape) > 2 => self_X.shape = fit_in.X.shape

C18_Witness ==
    /\ Fitted /\ ret.op = "fit" /\ ret.exc = ""
    /\ fit_in.X.t = "listdata" /\ fit_in.X.shape = <<2>>
    /\ fit_in.y.t = "ndarray" /\ fit_in.y.shape = <<2, 1>>
    /\ self_X.shape = <<2, 1>> /\ self_y.shape = <<2>>

-----------------------------------------------------------------------------
(* Properties of the feature selection *)

\* the routines of the given groups, as the engine keeps them
RoutinesOf(grps) ==
    {ExtendedItem(m) : m \in UNION {Range(MFE_CLASS_METHODS(g)) : g \in Range(grps)}}

\* C19: every feature selected at construction, by wildcard, by one name or
\* by a collection of names, is a routine of one of the selected groups, so
\* that extract, which invokes the selected routines, invokes no other
C19_FeaturesWithinGroups ==
    Built =>
        /\ Range(ctor_out.ft_mtd_metadata) \subseteq RoutinesOf(ctor_out.groups)
        /\ Range(ctor_out.features) \subseteq Available(ctor_out.groups)
        /\ Len(ctor_out.features) = Len(ctor_out.ft_mtd_metadata)
        /\ \A i \in 1..Len(ctor_out.features) :
              ctor_out.features[i] = remove_mtd_prefix(ctor_out.ft_mtd_metadata[i].name)

C19_Witness ==
    /\ Built
    /\ ctor_out.groups = <<"general">>
    /\ ctor_in.features = PyList(<<"nr_inst", "sd">>)
    /\ ctor_out.features = <<"nr_inst">>

\* the argument is a collection one of whose names is the given select-all
\* token, in any case
ContainsWildcard(sel, token) ==
    sel.t = "list" /\ \E i \in 1..Len(sel.v) : Lower(sel.v[i]) = Lower(token)

\* C27: a features collection that contains the wildcard token selects
\* every feature of the selected groups, as a collection containing the
\* token selects every group and every summary
C27_WildcardInCollectionSelectsAll ==
    Built =>
        /\ ContainsWildcard(ctor_in.features, ctor_in.wildcard) =>
              Range(ctor_out.features) = Available(ctor_out.groups)
        /\ ContainsWildcard(ctor_in.groups, DefaultWildcard) =>
              Range(ctor_out.groups) = Range(VALID_GROUPS)
        /\ ContainsWildcard(ctor_in.summary, DefaultWildcard) =>
              Range(ctor_out.summary[1].v) = {PyStr(n) : n \in Range(VALID_SUMMARY)}

-----------------------------------------------------------------------------
(* Properties of the overrides *)

\* the arguments a routine is invoked with when the caller overrides nothing
ArgsWithoutOverride(c) ==
    build_mtd_args(c.name, c.declared,
                   IF c.kind = "feature" THEN self_custom_args_ft ELSE PyNone,
                   PyNone, TRUE).args

\* C20: the overrides passed to extract under the name R reach the routines
\* named R only: a routine of another name is invoked with the arguments it
\* has when nothing is overridden
C20_OverrideReachesItsRoutineOnly ==
    ret.op = "extract" =>
        \A i \in 1..Len(ret.calls) :
            LET c == ret.calls[i] IN
            (\A j \in 1..Len(ret.kwargs) : ret.kwargs[j][1] # c.name) =>
                c.args = ArgsWithoutOverride(c)

C20_Witness ==
    /\ ret.op = "extract"
    /\ ret.kwargs # <<>> /\ ret.kwargs[1][1] = "sd"
    /\ \E i \in 1..Len(ret.calls) :
          ret.calls[i].name = "sd" /\ "ddof" \in DictKeys(ret.calls[i].args)
    /\ \E i \in 1..Len(ret.calls) :
          ret.calls[i].name = "nr_inst" /\ ret.calls[i].args # <<>>

-----------------------------------------------------------------------------
(* Properties of the warnings and of the failures of routines *)

\* C21: an extract called with suppress_warnings=True issues no warning
\* (unknown override key, failed routine, NaN from a summary) and has the
\* outcome of the same call with suppress_warnings=False on the same
\* engine: the same names and values, or the same exception
C21_SuppressedExtractIsSilent ==
    [][(ret'.op = "extract" /\ ret'.suppress_warnings) =>
          LET loud == extract(Self, ret'.remove_nan, FALSE, ret'.kwargs, behav) IN
          /\ ret'.warns = <<>>
          /\ ret'.exc = loud.exc
          /\ loud.exc = "" => ret'.names = loud.names /\ ret'.vals = loud.vals
          /\ ret'.calls = loud.calls]_vars

\* a suppressed extract that returns where the unsuppressed one warns of an
\* unknown override key and of a routine that failed
C21_Witness ==
    /\ ret.op = "extract" /\ ret.suppress_warnings /\ ret.exc = ""
    /\ ret.names # <<>>
    /\ LET loud == extract(Self, ret.remove_nan, FALSE, ret.kwargs, behav) IN
       /\ \E i \in 1..Len(loud.warns) : loud.warns[i].msg = "Unknown argument"
       /\ \E i \in 1..Len(loud.warns) : loud.warns[i].msg = "Error extracting"

\* the last extract invoked a summary whose invocation failed, giving NaN
SummaryFailed ==
    \E i \in 1..Len(ret.calls) : ret.calls[i].kind = "summary" /\ ret.calls[i].out = "nan"

\* C22: a summary invocation that fails with a type error yields NaN for
\* that one output and does not propagate: extract returns, with one output
\* per selected summary for the feature and every selected feature invoked
C22_SummaryFailureYieldsNaN ==
    (ExtractBegun /\ SummaryFailed) =>
        /\ ret.exc = ""
        /\ Len(FeatureCalls) = Len(self_ft_mtd_metadata)
        /\ \A i \in 1..Len(FeatureCalls) :
              FeatureCalls[i].out = "vector" =>
                 \A j \in 1..Len(SelectedSummaries) :
                    \E k \in 1..Len(ret.names) :
                       /\ ret.names[k] = FeatureCalls[i].name \o "." \o SelectedSummaries[j]
                       /\ ret.vals[k].t \in {"nan", "float"}

-----------------------------------------------------------------------------
(* Properties of a fit that raises *)

\* C26: a fit that raises leaves the engine as it was before the call, the
\* stored X, y, splits and the fit context included, and an engine on which
\* no fit has succeeded rejects extract with the state error
C26_FailedFitChangesNothing ==
    [][/\ (ret'.op = "fit" /\ ret'.exc # "") => Self' = Self
       /\ (ret'.op = "extract" /\ ~Fitted) =>
             ret'.exc = "TypeError" /\ ret'.msg = "not fitted"]_vars

-----------------------------------------------------------------------------
(* Properties of the precomputation at fit time *)

\* the precompute routines of a group and the keys each contributes: the
\* general group has precompute_general_class, whose mapping precompute_fx
\* reads under "classes", "y_idx" and "class_freqs"; the classes of
\* clustering.py and complexity.py are not among the groups of _internal.py
PRECOMPUTE_METHODS(group) ==
    IF group = "general"
    THEN << [name |-> "precompute_general_class",
             keys |-> <<"classes", "y_idx", "class_freqs">>] >>
    ELSE <<>>

\* the keys the precompute routines of the selected groups contribute
PrecomputedKeys ==
    UNION {UNION {Range(PRECOMPUTE_METHODS(self_groups[g])[i].keys) :
                     i \in 1..Len(PRECOMPUTE_METHODS(self_groups[g]))} :
             g \in 1..Len(self_groups)}

\* C23: a fit that returns has executed the precompute routines of the
\* selected groups, so that the keys they contribute are in the context
\* offered to the feature routines before any extract
C23_FitPopulatesCache ==
    (ret.op = "fit" /\ ret.exc = "") =>
        /\ self_custom_args_ft # PyNone
        /\ PrecomputedKeys \subseteq DictKeys(self_custom_args_ft.v)

-----------------------------------------------------------------------------
(* clustering.py, complexity.py: the precompute routines.  A routine is    *)
(* called with keyword arguments; kwargs is the set of the names supplied  *)
(* that bind to none of its parameters.  Its outcome: the exception raised *)
(* if any, the keys of the mapping returned in insertion order, and the    *)
(* computations executed.                                                  *)

\* most keys already supplied to a precompute routine
MaxSupplied == 3

\* a target array; balanced: every class has the same number, at least
\* two, of instances
TargetData(balanced) == [t |-> "ndarray", shape |-> <<4>>, balanced |-> balanced]

Skipped == [exc |-> "", returned |-> <<>>, executed |-> <<>>]

\* MFEClustering.precompute_clustering_class(y, **kwargs)
precompute_clustering_class(y, kwargs) ==
    IF y # PyNone /\ ~({"classes", "class_freqs"} \subseteq kwargs)
    THEN {[exc |-> "", returned |-> <<"classes", "class_freqs">>,
           executed |-> <<"np.unique">>]}
    ELSE {Skipped}

\* MFEClustering.precompute_group_distances(N, y, dist_metric, classes,
\* **kwargs).  N[y == c, :] is a TypeError when N is None.  The distances
\* within the classes are stacked by np.array and reduced by .max(axis=1):
\* with classes of different sizes the rows differ in length and, by the
\* version of numpy, np.array raises ValueError or gives a one-dimensional
\* array on which axis 1 is an AxisError; with one instance per class the
\* rows are empty and the reduction is a ValueError
precompute_group_distances(N, y, classes, kwargs) ==
    IF y # PyNone /\ ~({"pairwise_norm_interclass_dist", "pairwise_intraclass_dists",
                        "intraclass_dists"} \subseteq kwargs)
    THEN IF N = PyNone
         THEN {[exc |-> "TypeError", returned |-> <<>>,
                executed |-> <<"_pairwise_norm_interclass_dist">>]}
         ELSE IF ~y.balanced
         THEN {[exc |-> e, returned |-> <<>>,
                executed |-> <<"_pairwise_norm_interclass_dist", "_all_intraclass_dists">>] :
                  e \in {"ValueError", "AxisError"}}
         ELSE {[exc |-> "",
                executed |-> <<"_pairwise_norm_interclass_dist", "_all_intraclass_dists">>,
                returned |-> <<"pairwise_norm_interclass_dist", "pairwise_intraclass_dists",
                               "intraclass_dists">>]}
    ELSE {Skipped}

\* MFEComplexity.precompute_fx(y, **kwargs): classes and y_idx are bound by
\* the first block only, and read by the second
precompute_fx(y, kwargs) ==
    LET first == y # PyNone /\ ~({"classes", "class_freqs", "return_inverse"} \subseteq kwargs)
        second == y # PyNone /\ {"ovo_comb", "cls_index", "cls_n_ex"} \cap kwargs = {}
        prec == IF first THEN <<"precompute_general_class">> ELSE <<>>
    IN  IF ~second THEN {[exc |-> "", returned |-> <<>>, executed |-> prec]}
        ELSE IF ~first THEN {[exc |-> "UnboundLocalError", returned |-> <<>>, executed |-> prec]}
        ELSE {[exc |-> "", returned |-> <<"ovo_comb", "cls_index", "cls_n_ex">>,
               executed |-> prec \o <<"np.equal">>]}

\* MFEComplexity.precompute_pca_tx(N, **kwargs)
precompute_pca_tx(N, kwargs) ==
    IF N # PyNone /\ {"m", "m_", "n"} \cap kwargs = {}
    THEN {[exc |-> "", returned |-> <<"m_", "m", "n">>, executed |-> <<"PCA.fit">>]}
    ELSE {Skipped}

\* the precompute routines of clustering.py and complexity.py
PrecomputeRoutines ==
    {"precompute_clustering_class", "precompute_group_distances", "precompute_fx",
     "precompute_pca_tx"}

\* the keys a precompute routine returns, by the Returns section of its
\* docstring
OutputKeys(routine) ==
    CASE routine = "precompute_clustering_class" -> {"classes", "class_freqs"}
      [] routine = "precompute_group_distances" ->
            {"pairwise_norm_interclass_dist", "pairwise_intraclass_dists", "intraclass_dists"}
      [] routine = "precompute_fx" -> {"ovo_comb", "cls_index", "cls_n_ex"}
      [] routine = "precompute_pca_tx" -> {"m", "m_", "n"}

\* the names a call may supply besides N and y: the output keys of the
\* four routines and the other names the routines look for
SuppliedKeys ==
    UNION {OutputKeys(r) : r \in PrecomputeRoutines} \cup {"return_inverse"}

\* routine(N=N, y=y, **supplied): a name that is a parameter of the routine
\* binds to it, the others go to kwargs
CallPrecompute(routine, N, y, supplied) ==
    CASE routine = "precompute_clustering_class" ->
            precompute_clustering_class(y, supplied \cup (IF N = PyNone THEN {} ELSE {"N"}))
      [] routine = "precompute_group_distances" ->
            precompute_group_distances(N, y, "classes" \in supplied, supplied \ {"classes"})
      [] routine = "precompute_fx" ->
            precompute_fx(y, supplied \cup (IF N = PyNone THEN {} ELSE {"N"}))
      [] routine = "precompute_pca_tx" ->
            precompute_pca_tx(N, supplied \cup (IF y = PyNone THEN {} ELSE {"y"}))

PreInit ==
    /\ pre_in \in [routine : PrecomputeRoutines,
                   N : {PyNone, NdArray(<<4, 2>>)},
                   y : {PyNone} \cup {TargetData(b) : b \in BOOLEAN},
                   supplied : {S \in SUBSET SuppliedKeys : Cardinality(S) <= MaxSupplied}]
    /\ pre_out = Pending
    /\ NoEngine
    /\ fit_in = Unused /\ ctor_in = Unused /\ ctor_out = Unused
    /\ cx_in = Unused /\ cx_out = Unused

\* the call of the routine on the arguments at hand
Precompute ==
    /\ pre_out = Pending
    /\ pre_out' \in CallPrecompute(pre_in.routine, pre_in.N, pre_in.y, pre_in.supplied)
    /\ UNCHANGED <<pre_in, cx_in, cx_out, fit_in, ctor_in, ctor_out, self_groups,
                   self_features, self_ft_mtd_metadata, self_summary, self_X, self_y,
                   self_splits, self_custom_args_ft, behav, fit_called, last_fit, ret>>

SpecPre == PreInit /\ [][Precompute]_vars

\* a precompute routine was called and its outcome is known
Precomputed == pre_out \notin {Pending, Unused}

\* C24: a precompute routine called with all of its output keys already
\* supplied executes no computation and returns an empty mapping
C24_SuppliedOutputsSkipBody ==
    (Precomputed /\ OutputKeys(pre_in.routine) \subseteq pre_in.supplied) =>
        /\ pre_out.exc = ""
        /\ pre_out.executed = <<>>
        /\ pre_out.returned = <<>>

\* C25: a precompute routine returns no key that was supplied to it,
\* whichever of its output keys are supplied
C25_ReturnsNoSuppliedKey ==
    Precomputed => Range(pre_out.returned) \cap pre_in.supplied = {}

\* C28: given y and N, a precompute routine returns normally whatever keys
\* are supplied, and each of its output keys is then among the supplied
\* keys or in the mapping returned
C28_OutputKeysAvailable ==
    (Precomputed /\ pre_in.y # PyNone /\ pre_in.N # PyNone) =>
        /\ pre_out.exc = ""
        /\ OutputKeys(pre_in.routine) \subseteq pre_in.supplied \cup Range(pre_out.returned)

-----------------------------------------------------------------------------
(* complexity.py: ft_F3 and ft_F4.  A matrix is the sequence of its rows   *)
(* with its number of columns; a boolean mask is a sequence of booleans;   *)
(* classes and columns are numbered from 1.  A ratio is the pair of its    *)
(* numerator and denominator.                                              *)

\* most attributes of a dataset given to ft_F3 and ft_F4
MaxAttrs == 2

\* the values of the attributes
AttrValues == {0, 1, 2}

\* the targets: the class of each instance, every class from 1 to the
\* number of classes being present
Targets == {<<1, 2>>, <<1, 1, 2>>, <<1, 2, 3>>}

Matrix(rows, ncol) == [rows |-> rows, ncol |-> ncol]
NRows(M) == Len(M.rows)

MaxOf(S) == CHOOSE x \in S : \A z \in S : z <= x
MinOf(S) == CHOOSE x \in S : \A z \in S : x <= z

\* the values of column j on the rows the mask selects
MaskedColumn(M, mask, j) == {M.rows[i][j] : i \in {k \in 1..NRows(M) : mask[k]}}

\* N[mask, :]
SelectRows(M, mask) ==
    Matrix(Map(LAMBDA p : p[2],
               SelectSeq([i \in 1..NRows(M) |-> <<mask[i], M.rows[i]>>], LAMBDA p : p[1])),
           M.ncol)

\* v[mask] of a boolean vector v
SelectMask(v, mask) ==
    Map(LAMBDA p : p[2], SelectSeq([i \in 1..Len(v) |-> <<mask[i], v[i]>>], LAMBDA p : p[1]))

\* the column left in place
DeleteColumn_m(M, j) == M

\* np.delete(N_, j, axis=1)
DeleteColumn(M, j) ==
    Matrix([i \in 1..NRows(M) |->
               [c \in 1..(M.ncol - 1) |-> IF c < j THEN M.rows[i][c] ELSE M.rows[i][c + 1]]],
           M.ncol - 1)

\* precompute_fx: the classes of y, the mask of each class, the number of
\* instances of each class and the pairs of classes
NumClasses(y) == MaxOf(Range(y))
cls_index(y) == [c \in 1..NumClasses(y) |-> [i \in 1..Len(y) |-> y[i] = c]]
cls_n_ex(y) == [c \in 1..NumClasses(y) |-> Cardinality({i \in 1..Len(y) : y[i] = c})]
ovo_comb(y) ==
    LET n == NumClasses(y) IN
    SelectSeq([k \in 1..(n * n) |-> <<((k - 1) \div n) + 1, ((k - 1) % n) + 1>>],
              LAMBDA p : p[1] < p[2])

\* np.max(N[class], axis=0) is a ValueError when the mask selects no row
\* and N has columns
EmptyReduction(M, class1, class2) ==
    M.ncol > 0 /\ \/ \A i \in 1..NRows(M) : ~class1[i]
                  \/ \A i \in 1..NRows(M) : ~class2[i]

\* MFEComplexity._minmax, where both masks select a row
minmax(M, class1, class2) ==
    [j \in 1..M.ncol |-> MinOf({MaxOf(MaskedColumn(M, class1, j)),
                                MaxOf(MaskedColumn(M, class2, j))})]

\* MFEComplexity._maxmin, where both masks select a row
maxmin(M, class1, class2) ==
    [j \in 1..M.ncol |-> MaxOf({MinOf(MaskedColumn(M, class1, j)),
                                MinOf(MaskedColumn(M, class2, j))})]

\* the body of MFEComplexity._compute_f3 on the arrays hi = minmax_ and
\* lo = maxmin_; np.argmin gives the first column of least count
ComputeF3(M, hi, lo) ==
    LET overlapped == [i \in 1..NRows(M) |->
                          [j \in 1..M.ncol |-> M.rows[i][j] >= lo[j] /\ M.rows[i][j] <= hi[j]]]
        n_fi == [j \in 1..M.ncol |->
                    Cardinality({i \in 1..NRows(M) : overlapped[i][j]})]
        idx_min == CHOOSE j \in 1..M.ncol :
                      /\ \A k \in 1..M.ncol : n_fi[j] <= n_fi[k]
                      /\ \A k \in 1..(j - 1) : n_fi[k] > n_fi[j]
    IN  [idx_min |-> idx_min, n_fi |-> n_fi, overlapped |-> overlapped]

\* MFEComplexity._compute_f3 for a matrix with a column; the two arrays are
\* evaluated once
compute_f3(M, minmax_, maxmin_) ==
    CHOOSE r \in {ComputeF3(M, hi, lo) : hi \in {minmax_}, lo \in {maxmin_}} : TRUE

\* MFEComplexity.ft_F3: the ratio appended for each pair of classes
ft_F3(M, ovo, index, n_ex) ==
    [p \in 1..Len(ovo) |->
        LET idx1 == ovo[p][1]
            idx2 == ovo[p][2]
            r == compute_f3(M, minmax(M, index[idx1], index[idx2]),
                            maxmin(M, index[idx1], index[idx2]))
        IN <<r.n_fi[r.idx_min], n_ex[idx1] + n_ex[idx2]>>]

\* the statements of the while loop of ft_F4 after the call of _compute_f3,
\* r being what the call returned
F4Body(st, r) ==
    LET overlapped_region == [i \in 1..NRows(st.N_) |-> r.overlapped[i][r.idx_min]]
        kept == SelectRows(st.N_, overlapped_region)
    IN [st EXCEPT !.N_ = DeleteColumn(kept, r.idx_min),
                  !.y_class1 = SelectMask(st.y_class1, overlapped_region),
                  !.y_class2 = SelectMask(st.y_class2, overlapped_region),
                  !.aux = NRows(kept),
                  !.iters = @ + 1]

\* one pass of the body of the while loop of ft_F4
F4Iteration(st) ==
    IF EmptyReduction(st.N_, st.y_class1, st.y_class2)
    THEN [st EXCEPT !.pc = "raised", !.exc = "ValueError"]
    ELSE CHOOSE nxt \in {F4Body(st, r) :
                            r \in {compute_f3(st.N_,
                                              minmax(st.N_, st.y_class1, st.y_class2),
                                              maxmin(st.N_, st.y_class1, st.y_class2))}} : TRUE

\* the matrices of attribute values with a row for each instance of the
\* target t and c columns
Attributes(t, c) == [1..Len(t) -> [1..c -> AttrValues]]

\* a dataset: the attributes N and the target y
Dataset(rows, c, t) == [N |-> Matrix(rows, c), y |-> t]

\* ft_F3 is about to be called
NotCalled ==
    [pc |-> "F3", exc |-> "", f3 |-> <<>>, f4 |-> <<>>, pair |-> 0, N_ |-> Matrix(<<>>, 0),
     y_class1 |-> <<>>, y_class2 |-> <<>>, aux |-> 0, iters |-> 0]

\* no dataset has been given yet
CxInit ==
    /\ cx_in = Pending
    /\ cx_out = NotCalled
    /\ NoEngine
    /\ fit_in = Unused /\ ctor_in = Unused /\ ctor_out = Unused
    /\ pre_in = Unused /\ pre_out = Unused

CxFrame ==
    UNCHANGED <<pre_in, pre_out, fit_in, ctor_in, ctor_out, self_groups,
                self_features, self_ft_mtd_metadata, self_summary, self_X, self_y,
                self_splits, self_custom_args_ft, behav, fit_called, last_fit, ret>>

\* the call of ft_F3 on a dataset, which ft_F4 is called on next
CallF3 ==
    /\ cx_out.pc = "F3"
    /\ \E t \in Targets, c \in 1..MaxAttrs :
          \E d \in {Dataset(rows, c, t) : rows \in Attributes(t, c)} :
             /\ cx_in' = d
             /\ cx_out' = [cx_out EXCEPT
                             !.f3 = ft_F3(d.N, ovo_comb(d.y), cls_index(d.y), cls_n_ex(d.y)),
                             !.pc = "for", !.pair = 1]
    /\ CxFrame

\* the statements of ft_F4 before the while loop, for the classes of the
\* masks y1 and y2
F4Enter(st, M, y1, y2) ==
    LET sub_set == [i \in 1..NRows(M) |-> y1[i] \/ y2[i]] IN
    [st EXCEPT !.aux = 0, !.iters = 0, !.pc = "while",
               !.y_class1 = SelectMask(y1, sub_set),
               !.y_class2 = SelectMask(y2, sub_set),
               !.N_ = SelectRows(M, sub_set)]

\* ft_F4: the head of the for loop and the statements before the while
F4Pair ==
    /\ cx_out.pc = "for"
    /\ cx_out.pair <= Len(ovo_comb(cx_in.y))
    /\ \E p \in {ovo_comb(cx_in.y)[cx_out.pair]} :
          \E y1 \in {cls_index(cx_in.y)[p[1]]}, y2 \in {cls_index(cx_in.y)[p[2]]} :
             cx_out' = F4Enter(cx_out, cx_in.N, y1, y2)
    /\ UNCHANGED cx_in
    /\ CxFrame

\* the test of the while loop
LoopGoesOn(st) == st.N_.ncol > 0 /\ NRows(st.N_) > 0

\* ft_F4: one iteration of the while loop
F4Iterate ==
    /\ cx_out.pc = "while"
    /\ LoopGoesOn(cx_out)
    /\ cx_out' = F4Iteration(cx_out)
    /\ UNCHANGED cx_in
    /\ CxFrame

\* ft_F4: the while loop is left and the ratio of the pair appended
F4Append ==
    /\ cx_out.pc = "while"
    /\ ~LoopGoesOn(cx_out)
    /\ LET idx1 == ovo_comb(cx_in.y)[cx_out.pair][1]
           idx2 == ovo_comb(cx_in.y)[cx_out.pair][2]
       IN cx_out' = [cx_out EXCEPT
                       !.f4 = Append(@, <<cx_out.aux,
                                          cls_n_ex(cx_in.y)[idx1] + cls_n_ex(cx_in.y)[idx2]>>),
                       !.pair = @ + 1, !.pc = "for"]
    /\ UNCHANGED cx_in
    /\ CxFrame

\* ft_F4: the for loop is exhausted and the mean returned
F4Return ==
    /\ cx_out.pc = "for"
    /\ cx_out.pair > Len(ovo_comb(cx_in.y))
    /\ cx_out' = [cx_out EXCEPT !.pc = "done"]
    /\ UNCHANGED cx_in
    /\ CxFrame

\* the steps of ft_F4
F4Next == F4Pair \/ F4Iterate \/ F4Append \/ F4Return

CxNext == CallF3 \/ F4Next

SpecCx == CxInit /\ [][CxNext]_vars

\* ft_F4 runs on its own: a call in progress takes its next step
SpecCxLive == SpecCx /\ WF_vars(F4Next)

-----------------------------------------------------------------------------
(* Properties of ft_F3 and ft_F4 *)

\* ft_F3 has returned
F3Called == cx_out # Unused /\ cx_out.pc # "F3"

\* the instances of classes a and b that lie in the overlap region of the
\* two classes on column j
InOverlap(a, b, j) ==
    LET M == cx_in.N
        hi == minmax(M, cls_index(cx_in.y)[a], cls_index(cx_in.y)[b])[j]
        lo == maxmin(M, cls_index(cx_in.y)[a], cls_index(cx_in.y)[b])[j]
    IN {i \in 1..NRows(M) : /\ cx_in.y[i] \in {a, b}
                            /\ M.rows[i][j] >= lo /\ M.rows[i][j] <= hi}

\* the sum of the ratios of q, over the denominator d
RECURSIVE SumOver(_, _)
SumOver(q, d) == IF q = <<>> THEN 0 ELSE (Head(q)[1] * d) \div Head(q)[2] + SumOver(Tail(q), d)

RECURSIVE Denominator(_)
Denominator(q) == IF q = <<>> THEN 1 ELSE Head(q)[2] * Denominator(Tail(q))

\* C30: for every pair of classes (a, b) the count ft_F3 divides is the
\* number of instances of a and b in the overlap region of an attribute, so
\* it is at most cls_n_ex[a] + cls_n_ex[b], every ratio is between 0 and 1
\* and so is their mean
C30_F3RatioWithinUnit ==
    F3Called =>
        /\ \A p \in 1..Len(cx_out.f3) :
              LET a == ovo_comb(cx_in.y)[p][1]
                  b == ovo_comb(cx_in.y)[p][2]
              IN /\ \E j \in 1..cx_in.N.ncol :
                       cx_out.f3[p][1] = Cardinality(InOverlap(a, b, j))
                 /\ cx_out.f3[p][2] = cls_n_ex(cx_in.y)[a] + cls_n_ex(cx_in.y)[b]
                 /\ 0 <= cx_out.f3[p][1] /\ cx_out.f3[p][1] <= cx_out.f3[p][2]
        /\ SumOver(cx_out.f3, Denominator(cx_out.f3))
              <= Len(cx_out.f3) * Denominator(cx_out.f3)

\* ft_F4 is at the test of its while loop
InLoop == F3Called /\ cx_out.pc = "while"

\* C29: for every pair of classes the while loop of ft_F4 ends after at
\* most as many iterations as the dataset has attributes: an iteration
\* removes exactly one column and adds no row, the loop is left as soon as
\* no column or no row remains, and ft_F4 comes to its end
C29_F4LoopTerminates ==
    /\ [](InLoop => cx_out.iters + cx_out.N_.ncol = cx_in.N.ncol)
    /\ [][(InLoop /\ InLoop') =>
             /\ cx_out'.iters = cx_out.iters + 1
             /\ cx_out'.N_.ncol = cx_out.N_.ncol - 1
             /\ NRows(cx_out'.N_) <= NRows(cx_out.N_)
             /\ cx_out'.iters <= cx_in.N.ncol]_vars
    /\ [][(InLoop /\ ~LoopGoesOn(cx_out)) => cx_out'.pc = "for"]_vars
    /\ InLoop ~> (cx_out.pc \in {"for", "raised"})
    /\ F3Called ~> (cx_out.pc \in {"done", "raised"})

\* ft_F4 has gone twice through its loop for a pair, and left it with rows
\* remaining and no column
C29_Witness ==
    /\ InLoop
    /\ cx_out.iters = 2
    /\ cx_out.N_.ncol = 0
    /\ NRows(cx_out.N_) > 0

\* an iteration of ft_F4 found a class without instances among the rows
\* left and raised
F4Raised == F3Called /\ cx_out.pc = "raised"

====
